---- MODULE Spec2Model ----
(***************************************************************************)
(* The continuous ring-buffer capture engine of the audio DVR:             *)
(*   - the React hook useAudioBuffer (src/src/hooks/useAudioBuffer.ts):    *)
(*     its state, its refs, the closures its callbacks are created with,   *)
(*     and React's re-render + effect flush (Commit);                      *)
(*   - the sound-trigger detection loop, the speech keyword trigger, the  *)
(*     wake/sleep and remember buttons and the effect on [isDwightAwake]   *)
(*     of the dashboard component (src/unnamed/part_002).                  *)
(*                                                                         *)
(* Time is Date.now() in milliseconds.  A callback created inside          *)
(* a useCallback reads the `state` of the render it was created in: the    *)
(* model keeps `state` (the hook state with every queued updater applied)  *)
(* apart from `rendered` (the state of the last render, which is what the  *)
(* callbacks handed out by that render read), and every long-lived         *)
(* callback (ondataavailable, the setInterval callbacks, the               *)
(* requestAnimationFrame loop) carries the values it captured.             *)
(*                                                                         *)
(* Of AudioBufferState the model keeps the fields the hook reads           *)
(* (isBuffering, bufferSize, isRemembering, recordedChunks) and            *)
(* isTriggered; the other                                                  *)
(* write-only fields (currentBuffer, bufferStartTime, triggerTime,         *)
(* rememberingStartTime) are left out.                                     *)
(***************************************************************************)
EXTENDS Integers, Sequences, FiniteSets, TLC

VARIABLES
    now,               \* Date.now(), ms
    bufferSizeArg,     \* the argument useAudioBuffer was last rendered with
    state,             \* useState<AudioBufferState>, queued updaters applied
    rendered,          \* `state` as of the last render (what closures captured)
    bufferRef,         \* bufferRef.current: sequence of {blob, timestamp}
    sessions,          \* the capture sources (recorder + stream + timer, or demo timer) by slot
    pending,           \* startBuffering calls suspended at an await, with their closure
    intervalRef,       \* intervalRef.current  (index into sessions, 0 = undefined)
    mediaRecorderRef,  \* mediaRecorderRef.current (index into sessions, 0 = null)
    streamRef,         \* streamRef.current (index into sessions, 0 = null)
    blobs,             \* number of Blob objects created so far (blob identity)
    calls,             \* number of startBuffering calls so far
    expected,          \* observation: start snapshot + chunks ingested in the open remembering session
    soundDetection,    \* dashboard: useState soundDetection, queued updaters applied
    renderedDetection, \* dashboard: soundDetection as of its last render
    loops,             \* dashboard: the running requestAnimationFrame loops, with their closure
    soundDetectionFrameRef, \* dashboard: the loop whose frame request the ref holds (0 = null)
    firings,           \* observation: the times at which the sound trigger fired
    lastEval,          \* observation: the last evaluation of the sound trigger
    speech,            \* dashboard: speechRecognitionRef.current, its onresult closure, speechRecognitionActive
    keywordFirings,    \* observation: the times at which a speech keyword fired an extraction
    dashboard,         \* dashboard: useState isDwightAwake and isRemembering, queued updaters applied
    renderedDashboard, \* dashboard: isDwightAwake and isRemembering as of its last render
    effectClosure      \* dashboard: the effect on [isDwightAwake], with what its cleanup captured

sourceVars == <<sessions, intervalRef, mediaRecorderRef, streamRef>>

hookVars == <<now, bufferSizeArg, state, rendered, bufferRef, sourceVars, pending,
              blobs, calls, expected>>

speechVars == <<speech, keywordFirings>>

dashVars == <<dashboard, renderedDashboard, effectClosure>>

trigVars == <<soundDetection, renderedDetection, loops, soundDetectionFrameRef,
              firings, lastEval, speechVars, dashVars>>

vars == <<hookVars, trigVars>>

----------------------------------------------------------------------------
(* Bounds of the model *)

\* Date.now() when the hook is mounted
Epoch == 100000
\* the clock advances at most this many times
MaxAdvance == 3
\* at most this many blobs are ingested
MaxChunks == 2
\* at most this many calls of startBuffering
MaxStarts == 2
\* time between two observations of the clock, ms
TimeSteps == {15000}
\* values of the hook's bufferSize argument
HookArgs == {20, 60, 4000}
\* values passed to updateBufferSize
SliderInputs == {20, 4000}
\* event.data.size of a dataavailable event
DataSizes == {0, 1}
\* Scenario A runs its timer for at most this many chunks
ScenarioTicks == 60
\* at most this many detection loops run at once
MaxLoops == 1
\* at most this many firings of the sound trigger are followed
MaxFirings == 3
\* the detection loop is followed for this many ms
TrigHorizon == 2001
\* time between two animation frames that are observed, ms
FrameSteps == {1000, 1001}
\* volumePercent computed from the analyser at a frame
Levels == {50, 80, 90}
\* how device acquisition ends (permission query, then getUserMedia)
Outcomes == {"granted", "denied", "NotAllowedError", "NotFoundError", "NotReadableError", "Error"}

----------------------------------------------------------------------------
(* Pure helpers *)

Min(a, b) == IF a < b THEN a ELSE b
Max(a, b) == IF a > b THEN a ELSE b

Blobs(chunks) == [i \in 1..Len(chunks) |-> chunks[i].blob]

RemoveAt(seq, i) == [j \in 1..(Len(seq) - 1) |-> IF j < i THEN seq[j] ELSE seq[j + 1]]

\* eviction that keeps the chunk stamped exactly at the cutoff
RemoveOldInclusive(chunks, cutoffTime) ==
    SelectSeq(chunks, LAMBDA chunk : chunk.timestamp >= cutoffTime)

\* bufferRef.current.filter(chunk => chunk.timestamp > cutoffTime)
RemoveOld(chunks, cutoffTime) ==
    SelectSeq(chunks, LAMBDA chunk : chunk.timestamp > cutoffTime)

\* Math.max(30, Math.min(3000, newSize))
clampedSize(newSize) == Max(30, Min(3000, newSize))

\* a duration that counts one second per chunk
getBufferDurationByCount(chunks) == Len(chunks) * 1000

\* getBufferDuration, in ms (the code returns this / 1000)
getBufferDuration(chunks) ==
    IF Len(chunks) = 0 THEN 0
    ELSE chunks[Len(chunks)].timestamp - chunks[1].timestamp

\* getBufferFill = Math.min(100, (duration / bufferSize) * 100), as the exact
\* fraction FillNum / FillDen (bufferSize > 0)
FillDen(bufferSize) == bufferSize * 1000

FillNum(chunks, bufferSize) ==
    Min(100 * FillDen(bufferSize), 100 * getBufferDuration(chunks))

----------------------------------------------------------------------------
(* Capture sources.  A slot holds what one completed startBuffering        *)
(* created: the timer, and in real mode the recorder and the stream, with  *)
(* the state.bufferSize and state.isRemembering its callbacks captured.    *)

Slots == 1..MaxStarts

\* A source whose timer is cleared and whose recorder has delivered its last
\* event runs no callback any more; its slot is free, and a ref to it, on
\* which every call of stopBuffering is without effect, reads as unset.
Spent ==
    [kind |-> "spent", bufferSize |-> 0, isRemembering |-> FALSE,
     interval |-> FALSE, ticked |-> TRUE, recorder |-> "none", flush |-> FALSE,
     tracks |-> FALSE]

NewSession(kind, closure) ==
    [kind |-> kind, bufferSize |-> closure.bufferSize, isRemembering |-> closure.isRemembering,
     interval |-> TRUE, ticked |-> TRUE,
     recorder |-> IF kind = "real" THEN "recording" ELSE "none",
     flush |-> FALSE,
     tracks |-> (kind = "real")]

Free(ss) == {i \in Slots : ss[i] = Spent}

FirstFree(ss) == CHOOSE i \in Free(ss) : \A j \in Free(ss) : i <= j

Collect(ss) ==
    [i \in Slots |->
        IF ~ss[i].interval /\ ss[i].recorder # "recording" /\ ~ss[i].flush
          THEN Spent
          ELSE IF ~ss[i].interval THEN [ss[i] EXCEPT !.ticked = TRUE] ELSE ss[i]]

Ref(ss, r) == IF r # 0 /\ ss[r] = Spent THEN 0 ELSE r

SetSources(ss, interval, recorder, stream) ==
    LET live == Collect(ss)
    IN  /\ sessions' = live
        /\ intervalRef' = Ref(live, interval)
        /\ mediaRecorderRef' = Ref(live, recorder)
        /\ streamRef' = Ref(live, stream)

\* an ingestion timer that will fire
ActiveTimers == {i \in Slots : sessions[i].interval}

----------------------------------------------------------------------------
(* The dashboard's sound-detection state *)

LoopSlots == 1..MaxLoops

\* no detectSound closure is scheduled in this slot
NoLoop ==
    [running |-> FALSE, isActive |-> FALSE, threshold |-> 0, lastTrigger |-> 0,
     cooldown |-> 0, isBuffering |-> FALSE, evaluated |-> TRUE]

\* useState({ isActive: false, threshold: 50, lastTrigger: 0, cooldown: 2000 })
InitialDetection ==
    [isActive |-> FALSE, threshold |-> 50, lastTrigger |-> 0, cooldown |-> 2000]

NoEval == [level |-> 0, at |-> 0, fired |-> FALSE, since |-> -1]

\* speechRecognitionRef.current = null, speechRecognitionActive = false
NoSpeech == [onresult |-> FALSE, isBuffering |-> FALSE, isDwightAwake |-> FALSE,
             listening |-> FALSE, active |-> FALSE, heard |-> TRUE]

\* useState(true) for isDwightAwake, useState(false) for isRemembering
InitialDashboard == [isDwightAwake |-> TRUE, isRemembering |-> FALSE]

\* the effect on [isDwightAwake] has not run yet
NoEffect == [ran |-> FALSE, isBuffering |-> FALSE]

DashboardMounted ==
    /\ soundDetection = InitialDetection
    /\ renderedDetection = soundDetection
    /\ loops = [l \in LoopSlots |-> NoLoop]
    /\ soundDetectionFrameRef = 0
    /\ firings = <<>>
    /\ lastEval = NoEval
    /\ speech = NoSpeech
    /\ keywordFirings = <<>>
    /\ dashboard = InitialDashboard
    /\ renderedDashboard = dashboard
    /\ effectClosure = NoEffect

----------------------------------------------------------------------------
(* Initial state: the hook has been rendered once with its argument *)

InitialState(bufferSize) ==
    [isBuffering |-> FALSE, bufferSize |-> bufferSize,
     isRemembering |-> FALSE, recordedChunks |-> <<>>,
     isTriggered |-> FALSE]

Mounted(bufferSize) ==
    /\ now = Epoch
    /\ bufferSizeArg = bufferSize
    /\ state = InitialState(bufferSizeArg)
    /\ rendered = state
    /\ bufferRef = <<>>
    /\ sessions = [i \in Slots |-> Spent]
    /\ pending = <<>>
    /\ intervalRef = 0
    /\ mediaRecorderRef = 0
    /\ streamRef = 0
    /\ blobs = 0
    /\ calls = 0
    /\ expected = <<>>
    /\ DashboardMounted

\* the dashboard mounts the hook as useAudioBuffer(30)
DashboardArg == 30

Init == Mounted(DashboardArg)

\* the hook mounted by any caller
InitAny == \E bufferSize \in HookArgs : Mounted(bufferSize)

----------------------------------------------------------------------------
(* React re-renders and flushes its effects within milliseconds of a       *)
(* setState: a click, a slider move or the next observation of the clock   *)
(* comes after it.  Promise continuations, timer callbacks and recorder    *)
(* events are not ordered with respect to it.                              *)
Settled == state = rendered

----------------------------------------------------------------------------
(* Ingestion: the body shared by mediaRecorder.ondataavailable and the     *)
(* demo-mode setInterval callback.  `closure` holds state.bufferSize and   *)
(* state.isRemembering as captured when startBuffering was called.         *)

\* an ingestion that stops after the push, before the eviction
IngestAppendOnly(closure) ==
    /\ blobs' = blobs + 1
    /\ bufferRef' = Append(bufferRef, [blob |-> blobs + 1, timestamp |-> now])
    /\ state' = IF closure.isRemembering
                  THEN [state EXCEPT !.recordedChunks = Append(@, blobs + 1)]
                  ELSE state
    /\ expected' = IF state.isRemembering THEN Append(expected, blobs + 1) ELSE expected

Ingest(closure) ==
    LET timestamp == now
        blob == blobs + 1
        pushed == Append(bufferRef, [blob |-> blob, timestamp |-> timestamp])
        cutoffTime == timestamp - (closure.bufferSize * 1000)
    IN  /\ blobs' = blob
        /\ bufferRef' = RemoveOld(pushed, cutoffTime)
        /\ state' = IF closure.isRemembering
                      THEN [state EXCEPT !.recordedChunks = Append(@, blob)]
                      ELSE state
        /\ expected' = IF state.isRemembering THEN Append(expected, blob) ELSE expected

\* mediaRecorder.ondataavailable = (event) => { if (event.data.size > 0) ... }
ondataavailable(closure, size) ==
    IF size > 0
      THEN Ingest(closure)
      ELSE UNCHANGED <<blobs, bufferRef, state, expected>>

----------------------------------------------------------------------------
(* startBuffering: the call runs to its first await with the closure of    *)
(* the render that handed it out; the continuation runs when the           *)
(* permission query and getUserMedia have settled.                         *)

startBuffering ==
    /\ Settled
    /\ calls < MaxStarts
    /\ pending' = Append(pending, [bufferSize |-> rendered.bufferSize,
                                   isRemembering |-> rendered.isRemembering])
    /\ calls' = calls + 1
    /\ UNCHANGED <<trigVars, now, bufferSizeArg, state, rendered, bufferRef, sourceVars,
                   blobs, expected>>

\* lines 110-163: stream, recorder, ondataavailable, start, setInterval, setState
startReal(closure) ==
    LET n == FirstFree(sessions) IN
    /\ sessions' = [sessions EXCEPT ![n] = NewSession("real", closure)]
    /\ streamRef' = n
    /\ mediaRecorderRef' = n
    /\ intervalRef' = n
    /\ state' = [state EXCEPT !.isBuffering = TRUE]

\* startDemoMode, called from startBuffering's catch
startDemoMode(closure) ==
    LET n == FirstFree(sessions) IN
    /\ sessions' = [sessions EXCEPT ![n] = NewSession("demo", closure)]
    /\ intervalRef' = n
    /\ state' = [state EXCEPT !.isBuffering = TRUE]
    /\ UNCHANGED <<streamRef, mediaRecorderRef>>

\* the errorMessage the catch block builds from error.name and writes to the console
errorMessage(outcome) ==
    CASE outcome = "NotAllowedError" -> "Microphone access denied. Starting demo mode instead."
      [] outcome = "NotFoundError" -> "No microphone found. Starting demo mode instead."
      [] outcome = "NotReadableError" ->
             "Microphone is already in use by another application. Starting demo mode instead."
      [] OTHER -> "error.message Starting demo mode instead."

\* what the promise of startBuffering settles with: the catch block handles
\* every error of the try block and rethrows only an error of startDemoMode,
\* whose body (setInterval, setState) throws nothing
startBufferingResult(outcome) == "resolved"

\* the continuation of the i-th suspended call: try block, or catch -> startDemoMode
startBufferingContinues(i, outcome) ==
    /\ IF outcome = "granted" THEN startReal(pending[i]) ELSE startDemoMode(pending[i])
    /\ pending' = RemoveAt(pending, i)
    /\ UNCHANGED <<trigVars, now, bufferSizeArg, rendered, bufferRef, blobs, calls, expected>>

startBufferingSettled ==
    \E i \in 1..Len(pending), outcome \in Outcomes :
        startBufferingContinues(i, outcome)

\* acquisition fails, whatever the reason
startBufferingFails ==
    \E i \in 1..Len(pending), outcome \in Outcomes \ {"granted"} :
        startBufferingContinues(i, outcome)

----------------------------------------------------------------------------
(* Timers and recorder events *)

\* the setInterval callback of source i fires (at most once per clock value)
intervalCallback(i, size) ==
    /\ sessions[i].interval
    /\ ~sessions[i].ticked
    /\ sessions' = [sessions EXCEPT ![i].ticked = TRUE]
    /\ IF sessions[i].kind = "demo"
         THEN Ingest(sessions[i])
         ELSE IF sessions[i].recorder = "recording"
                THEN ondataavailable(sessions[i], size)   \* requestData()
                ELSE UNCHANGED <<blobs, bufferRef, state, expected>>
    /\ UNCHANGED <<trigVars, now, bufferSizeArg, rendered, pending, calls, intervalRef, mediaRecorderRef, streamRef>>

Tick ==
    \E i \in Slots, size \in DataSizes :
        /\ blobs < MaxChunks
        /\ intervalCallback(i, size)

\* the dataavailable event a recorder fires when it stops
finalData(i, size) ==
    /\ sessions[i].flush
    /\ SetSources([sessions EXCEPT ![i].flush = FALSE], intervalRef, mediaRecorderRef, streamRef)
    /\ ondataavailable(sessions[i], size)
    /\ UNCHANGED <<trigVars, now, bufferSizeArg, rendered, pending, calls>>

FinalData ==
    \E i \in Slots, size \in DataSizes :
        /\ blobs < MaxChunks
        /\ finalData(i, size)

AdvanceTime(dt) ==
    /\ Settled
    /\ now' = now + dt
    /\ sessions' = [i \in Slots |-> [sessions[i] EXCEPT !.ticked = ~sessions[i].interval]]
    /\ UNCHANGED <<trigVars, bufferSizeArg, state, rendered, bufferRef, pending,
                   intervalRef, mediaRecorderRef, streamRef, blobs, calls, expected>>

Advance ==
    \E dt \in TimeSteps :
        /\ now + dt <= Epoch + MaxAdvance * dt
        /\ AdvanceTime(dt)

----------------------------------------------------------------------------
(* stopBuffering *)

\* MediaRecorder.stop(): the recorder goes inactive and queues its last dataavailable
StopRecorder(ss, i) ==
    IF i # 0 /\ ss[i].recorder = "recording"
      THEN [ss EXCEPT ![i].recorder = "inactive", ![i].flush = TRUE]
      ELSE ss

\* clearInterval(intervalRef.current)
ClearInterval(ss, i) == IF i # 0 THEN [ss EXCEPT ![i].interval = FALSE] ELSE ss

\* track.stop() on every track; a recorder whose tracks have all ended stops
StopTracks(ss, i) ==
    IF i # 0 THEN StopRecorder([ss EXCEPT ![i].tracks = FALSE], i) ELSE ss

\* the body of stopBuffering, created in a render whose state.isBuffering was isBuffering
stopBufferingBody(isBuffering) ==
    LET s1 == IF mediaRecorderRef # 0 /\ isBuffering
                THEN StopRecorder(sessions, mediaRecorderRef) ELSE sessions
        s2 == ClearInterval(s1, intervalRef)
        s3 == StopTracks(s2, streamRef)
    IN  /\ SetSources(s3, intervalRef, mediaRecorderRef, streamRef)
        /\ state' = [state EXCEPT !.isBuffering = FALSE]

stopBuffering ==
    /\ Settled
    /\ stopBufferingBody(rendered.isBuffering)
    /\ UNCHANGED <<trigVars, now, bufferSizeArg, rendered, bufferRef, pending, blobs, calls, expected>>

----------------------------------------------------------------------------
(* React: re-render and effect flush.  stopBuffering is re-created when    *)
(* state.isBuffering changed (useCallback deps, line 210), which re-runs   *)
(* the effect of lines 304-308: its cleanup calls the previous render's    *)
(* stopBuffering.                                                          *)

Commit ==
    /\ state # rendered
    /\ rendered' = state
    /\ IF state.isBuffering # rendered.isBuffering
         THEN stopBufferingBody(rendered.isBuffering)
         ELSE UNCHANGED <<sourceVars, state>>
    /\ UNCHANGED <<trigVars, now, bufferSizeArg, bufferRef, pending, blobs, calls, expected>>

\* the hook is rendered with another argument: effect of lines 311-313
bufferSizeEffect ==
    \E bufferSize \in HookArgs :
        /\ Settled
        /\ bufferSize # bufferSizeArg
        /\ bufferSizeArg' = bufferSize
        /\ state' = [state EXCEPT !.bufferSize = bufferSize]
        /\ UNCHANGED <<trigVars, now, rendered, bufferRef, sourceVars, pending, blobs, calls, expected>>

----------------------------------------------------------------------------
(* Extraction, remembering, resize: called through the last render *)

\* an extraction that leaves out the chunk stamped at the trigger time
relevantChunksBefore(chunks, bufferStartTime, triggerTime) ==
    SelectSeq(chunks, LAMBDA chunk :
        chunk.timestamp >= bufferStartTime /\ chunk.timestamp < triggerTime)

\* bufferRef.current.filter(chunk => chunk.timestamp >= bufferStartTime && chunk.timestamp <= triggerTime)
relevantChunks(chunks, bufferStartTime, triggerTime) ==
    SelectSeq(chunks, LAMBDA chunk :
        chunk.timestamp >= bufferStartTime /\ chunk.timestamp <= triggerTime)

\* what triggerRecording resolves with when called now: the parts of audioBlob
audioBlob ==
    LET triggerTime == now
        bufferStartTime == triggerTime - (rendered.bufferSize * 1000)
    IN  relevantChunks(bufferRef, bufferStartTime, triggerTime)

\* what the promise of triggerRecording settles with: resolve(audioBlob) is its
\* only exit
triggerRecordingResult == [outcome |-> "resolved", parts |-> Blobs(audioBlob)]

\* an extraction that empties the buffer it read
triggerRecordingDraining ==
    /\ Settled
    /\ state' = [state EXCEPT !.isTriggered = TRUE]
    /\ bufferRef' = <<>>
    /\ UNCHANGED <<trigVars, now, bufferSizeArg, rendered, sourceVars, pending,
                   blobs, calls, expected>>

\* triggerRecording reads bufferRef and sets isTriggered (and triggerTime) only
triggerRecording ==
    /\ Settled
    /\ state' = [state EXCEPT !.isTriggered = TRUE]
    /\ UNCHANGED <<trigVars, now, bufferSizeArg, rendered, bufferRef, sourceVars, pending,
                   blobs, calls, expected>>

\* bufferRef.current.filter(chunk => chunk.timestamp >= bufferStartTime)
bufferChunks(chunks, bufferStartTime) ==
    SelectSeq(chunks, LAMBDA chunk : chunk.timestamp >= bufferStartTime)

startRememberingBody ==
    LET triggerTime == now
        bufferStartTime == triggerTime - (rendered.bufferSize * 1000)
        snapshot == Blobs(bufferChunks(bufferRef, bufferStartTime))
    IN  /\ state' = [state EXCEPT !.isRemembering = TRUE, !.recordedChunks = snapshot,
                                 !.isTriggered = TRUE]
        /\ expected' = snapshot

startRemembering ==
        /\ Settled
        /\ startRememberingBody
        /\ UNCHANGED <<trigVars, now, bufferSizeArg, rendered, bufferRef, sourceVars, pending, blobs, calls>>

\* a stopRemembering that returns the rolling buffer instead of the session
finalBlobOfBuffer == Blobs(bufferRef)

\* new Blob(state.recordedChunks): the parts of the blob stopRemembering returns
finalBlob == rendered.recordedChunks

\* what stopRemembering hands to its caller: return finalBlob is its only exit
stopRememberingResult == [outcome |-> "returned", parts |-> finalBlob]

stopRememberingBody ==
    /\ state' = [state EXCEPT !.isRemembering = FALSE, !.recordedChunks = <<>>]
    /\ expected' = <<>>

stopRemembering ==
    /\ Settled
    /\ stopRememberingBody
    /\ UNCHANGED <<trigVars, now, bufferSizeArg, rendered, bufferRef, sourceVars, pending, blobs, calls>>

\* a resize that leaves the buffer as it is
updateBufferSizeKeepingAll(newSize) ==
    /\ Settled
    /\ state' = [state EXCEPT !.bufferSize = clampedSize(newSize)]
    /\ UNCHANGED <<trigVars, now, bufferSizeArg, rendered, bufferRef, sourceVars, pending,
                   blobs, calls, expected>>

\* a resize that evicts by the window it replaces
updateBufferSizeEvictingOld(newSize) ==
    LET cutoffTime == now - (state.bufferSize * 1000)
    IN  /\ Settled
        /\ state' = [state EXCEPT !.bufferSize = clampedSize(newSize)]
        /\ bufferRef' = RemoveOld(bufferRef, cutoffTime)
        /\ UNCHANGED <<trigVars, now, bufferSizeArg, rendered, sourceVars, pending, blobs, calls, expected>>

updateBufferSizeTo(newSize) ==
    LET clamped == clampedSize(newSize)
        cutoffTime == now - (clamped * 1000)
    IN  /\ Settled
        /\ state' = [state EXCEPT !.bufferSize = clamped]
        /\ bufferRef' = RemoveOld(bufferRef, cutoffTime)
        /\ UNCHANGED <<trigVars, now, bufferSizeArg, rendered, sourceVars, pending, blobs, calls, expected>>

updateBufferSize == \E newSize \in SliderInputs : updateBufferSizeTo(newSize)

----------------------------------------------------------------------------
(* The dashboard's sound trigger.  detectSound is created by               *)
(* startSoundDetectionLoop and re-scheduled by requestAnimationFrame: a    *)
(* running loop reads soundDetection and audioBuffer.isBuffering of the    *)
(* render its startSoundDetectionLoop belongs to.  initializeSoundDetection*)
(* is held by its caller (a timeout set by the mount effect or by the wake *)
(* button) from a render in which audioBuffer.isBuffering was isBuffering. *)

FreeLoops == {l \in LoopSlots : ~loops[l].running}

\* startSoundDetectionLoop of the render `closure`: detectSound returns at
\* once, scheduling nothing, when its soundDetection.isActive is false
startSoundDetectionLoop(closure, isBuffering) ==
    IF closure.isActive
      THEN LET l == CHOOSE f \in FreeLoops : \A g \in FreeLoops : f <= g
           IN  loops' = [loops EXCEPT ![l] =
                   [running |-> TRUE, isActive |-> closure.isActive,
                    threshold |-> closure.threshold, lastTrigger |-> closure.lastTrigger,
                    cooldown |-> closure.cooldown, isBuffering |-> isBuffering,
                    evaluated |-> FALSE]]
      ELSE UNCHANGED loops

initializeSoundDetection ==
    \E isBuffering \in BOOLEAN :
        /\ FreeLoops # {}
        /\ IF isBuffering
             THEN /\ soundDetection' = [soundDetection EXCEPT !.isActive = TRUE]
                  /\ startSoundDetectionLoop(renderedDetection, isBuffering)
             ELSE UNCHANGED <<soundDetection, loops>>
        /\ UNCHANGED <<hookVars, dashVars, renderedDetection, soundDetectionFrameRef, firings, lastEval,
                       speechVars>>

\* one animation frame of loop l: lines 591-633
detectSound(l, volumePercent) ==
    LET closure == loops[l]
        fire == /\ volumePercent > closure.threshold
                /\ now - closure.lastTrigger > closure.cooldown
    IN  /\ closure.running
        /\ ~closure.evaluated
        /\ soundDetection' = IF fire THEN [soundDetection EXCEPT !.lastTrigger = now]
                                     ELSE soundDetection
        /\ firings' = IF fire THEN Append(firings, now) ELSE firings
        /\ lastEval' = [level |-> volumePercent, at |-> now, fired |-> fire,
                        since |-> IF firings = <<>> THEN -1
                                  ELSE now - firings[Len(firings)]]
        /\ loops' = [loops EXCEPT ![l].evaluated = TRUE]
        /\ soundDetectionFrameRef' = l
        /\ UNCHANGED <<hookVars, dashVars, renderedDetection, speechVars>>

Frame ==
    \E l \in LoopSlots, volumePercent \in Levels :
        /\ Len(firings) < MaxFirings
        /\ detectSound(l, volumePercent)

\* cancelAnimationFrame reaches the frame request the ref holds, and no other
stopSoundDetectionBody ==
    /\ soundDetection' = [soundDetection EXCEPT !.isActive = FALSE]
    /\ loops' = IF soundDetectionFrameRef # 0
                  THEN [loops EXCEPT ![soundDetectionFrameRef] = NoLoop]
                  ELSE loops

stopSoundDetection ==
    /\ stopSoundDetectionBody
    /\ UNCHANGED <<hookVars, dashVars, renderedDetection, soundDetectionFrameRef, firings, lastEval,
                       speechVars>>

\* the dashboard re-renders
RenderDashboard ==
    /\ soundDetection # renderedDetection
    /\ renderedDetection' = soundDetection
    /\ UNCHANGED <<hookVars, dashVars, soundDetection, loops, soundDetectionFrameRef, firings, lastEval,
                   speechVars>>

\* time passes to a later animation frame
NextFrame ==
    \E dt \in FrameSteps :
        /\ now + dt <= Epoch + TrigHorizon
        /\ soundDetection = renderedDetection
        /\ now' = now + dt
        /\ loops' = [l \in LoopSlots |-> [loops[l] EXCEPT !.evaluated = ~loops[l].running]]
        /\ speech' = [speech EXCEPT !.heard = ~speech.listening]
        /\ UNCHANGED <<bufferSizeArg, state, rendered, bufferRef, sourceVars, pending,
                       blobs, calls, expected, soundDetection, renderedDetection,
                       soundDetectionFrameRef, firings, lastEval, keywordFirings, dashVars>>

----------------------------------------------------------------------------
(* The dashboard's keyword trigger: speech recognition.  onresult is       *)
(* created by initializeSpeechRecognition and reads audioBuffer.isBuffering*)
(* of the render that call belongs to.                                     *)

\* a new SpeechRecognition object with its onresult handler, not yet started
initializeSpeechRecognitionFrom(isBuffering, isDwightAwake) ==
        /\ speech' = [speech EXCEPT !.onresult = TRUE, !.isBuffering = isBuffering,
                                    !.isDwightAwake = isDwightAwake,
                                    !.listening = FALSE, !.heard = TRUE]
        /\ UNCHANGED <<hookVars, dashVars, soundDetection, renderedDetection, loops,
                       soundDetectionFrameRef, firings, lastEval, keywordFirings>>

\* the caller holds initializeSpeechRecognition from a render in which
\* audioBuffer.isBuffering and isDwightAwake had these values
initializeSpeechRecognition ==
    \E isBuffering \in BOOLEAN, isDwightAwake \in BOOLEAN :
        initializeSpeechRecognitionFrom(isBuffering, isDwightAwake)

startSpeechRecognition ==
    /\ speech' = IF speech.onresult /\ ~speech.active
                   THEN [speech EXCEPT !.listening = TRUE, !.active = TRUE, !.heard = FALSE]
                   ELSE speech
    /\ UNCHANGED <<hookVars, dashVars, soundDetection, renderedDetection, loops,
                   soundDetectionFrameRef, firings, lastEval, keywordFirings>>

stopSpeechRecognitionBody ==
    speech' = IF speech.onresult /\ speech.active
                THEN [speech EXCEPT !.listening = FALSE, !.active = FALSE, !.heard = TRUE]
                ELSE speech

stopSpeechRecognition ==
    /\ stopSpeechRecognitionBody
    /\ UNCHANGED <<hookVars, dashVars, soundDetection, renderedDetection, loops,
                   soundDetectionFrameRef, firings, lastEval, keywordFirings>>

\* speechRecognition.onresult: matched says whether the transcript includes
\* a speech trigger; a match calls handleManualRecord if the closure saw
\* audioBuffer.isBuffering, and handleManualRecord returns at once unless the
\* closure saw isDwightAwake
onresult(matched) ==
    /\ speech.listening
    /\ ~speech.heard
    /\ speech' = [speech EXCEPT !.heard = TRUE]
    /\ keywordFirings' = IF matched /\ speech.isBuffering /\ speech.isDwightAwake
                           THEN Append(keywordFirings, now)
                           ELSE keywordFirings
    /\ UNCHANGED <<hookVars, dashVars, soundDetection, renderedDetection, loops,
                   soundDetectionFrameRef, firings, lastEval>>

Result ==
    \E matched \in BOOLEAN :
        /\ Len(keywordFirings) < MaxFirings
        /\ onresult(matched)

----------------------------------------------------------------------------
(* The dashboard's wake/sleep button, its remember button and its effect   *)
(* on [isDwightAwake].  A click runs the handler of the last render; the   *)
(* effect's cleanup and body run when the component re-renders, after the  *)
(* hook's own effect cleanup.                                              *)

\* capture sources in use or about to be created
Busy == Cardinality(Slots \ Free(sessions)) + Len(pending)

\* audioBuffer.startBuffering() through a render whose hook state was s;
\* calls counts up to MaxStarts
startBufferingCall(s) ==
    /\ pending' = Append(pending, [bufferSize |-> s.bufferSize,
                                   isRemembering |-> s.isRemembering])
    /\ calls' = Min(calls + 1, MaxStarts)

\* the sources after stopBuffering of a render whose state.isBuffering was isBuffering
StoppedSources(ss, isBuffering) ==
    LET s1 == IF mediaRecorderRef # 0 /\ isBuffering
                THEN StopRecorder(ss, mediaRecorderRef) ELSE ss
        s2 == ClearInterval(s1, intervalRef)
    IN  StopTracks(s2, streamRef)

\* the component has rendered its current state and its mount effect has run
DashboardSettled ==
    /\ Settled
    /\ dashboard = renderedDashboard
    /\ soundDetection = renderedDetection
    /\ effectClosure.ran

\* the effect of the first render: Dwight starts awake
mountEffect ==
    /\ ~effectClosure.ran
    /\ effectClosure' = [ran |-> TRUE, isBuffering |-> rendered.isBuffering]
    /\ IF renderedDashboard.isDwightAwake
         THEN startBufferingCall(rendered)
         ELSE UNCHANGED <<pending, calls>>
    /\ UNCHANGED <<now, bufferSizeArg, state, rendered, bufferRef, sourceVars, blobs, expected,
                   soundDetection, renderedDetection, loops, soundDetectionFrameRef,
                   firings, lastEval, speechVars, dashboard, renderedDashboard>>

\* onClick of the wake/sleep button while Dwight is awake
onClickSleep ==
    /\ DashboardSettled
    /\ renderedDashboard.isDwightAwake
    /\ stopBufferingBody(rendered.isBuffering)
    /\ stopSoundDetectionBody
    /\ stopSpeechRecognitionBody
    /\ dashboard' = [isDwightAwake |-> FALSE, isRemembering |-> FALSE]
    /\ UNCHANGED <<now, bufferSizeArg, rendered, bufferRef, pending, blobs, calls, expected,
                   renderedDetection, soundDetectionFrameRef, firings, lastEval,
                   keywordFirings, renderedDashboard, effectClosure>>

\* onClick of the wake/sleep button while Dwight sleeps; the re-render that
\* follows makes a second call of startBuffering
onClickWake ==
    /\ DashboardSettled
    /\ ~renderedDashboard.isDwightAwake
    /\ Busy + 2 <= MaxStarts
    /\ dashboard' = [dashboard EXCEPT !.isDwightAwake = TRUE]
    /\ IF ~rendered.isBuffering
         THEN startBufferingCall(rendered)
         ELSE UNCHANGED <<pending, calls>>
    /\ UNCHANGED <<now, bufferSizeArg, state, rendered, bufferRef, sourceVars, blobs, expected,
                   soundDetection, renderedDetection, loops, soundDetectionFrameRef,
                   firings, lastEval, speechVars, renderedDashboard, effectClosure>>

\* onClick of the remember button, disabled while Dwight sleeps
onClickRemember ==
    /\ DashboardSettled
    /\ renderedDashboard.isDwightAwake
    /\ IF renderedDashboard.isRemembering
         THEN /\ stopRememberingBody
              /\ dashboard' = [dashboard EXCEPT !.isRemembering = FALSE]
         ELSE /\ startRememberingBody
              /\ dashboard' = [dashboard EXCEPT !.isRemembering = TRUE]
    /\ UNCHANGED <<now, bufferSizeArg, rendered, bufferRef, sourceVars, pending, blobs, calls,
                   soundDetection, renderedDetection, loops, soundDetectionFrameRef,
                   firings, lastEval, speechVars, renderedDashboard, effectClosure>>

\* the component re-renders: the hook's effect cleanup (lines 303-308 of the
\* hook), then the cleanup and the body of the effect on [isDwightAwake]
CommitDashboard ==
    LET hookChanged == state.isBuffering # rendered.isBuffering
        awakeChanged == dashboard.isDwightAwake # renderedDashboard.isDwightAwake
        s1 == IF hookChanged THEN StoppedSources(sessions, rendered.isBuffering) ELSE sessions
        s2 == IF awakeChanged THEN StoppedSources(s1, effectClosure.isBuffering) ELSE s1
    IN  /\ effectClosure.ran
        /\ state # rendered \/ dashboard # renderedDashboard \/ soundDetection # renderedDetection
        /\ rendered' = state
        /\ renderedDashboard' = dashboard
        /\ renderedDetection' = soundDetection
        /\ IF hookChanged \/ awakeChanged
             THEN /\ SetSources(s2, intervalRef, mediaRecorderRef, streamRef)
                  /\ state' = [state EXCEPT !.isBuffering = FALSE]
             ELSE UNCHANGED <<sourceVars, state>>
        /\ IF awakeChanged
             THEN /\ stopSoundDetectionBody
                  /\ stopSpeechRecognitionBody
                  /\ effectClosure' = [ran |-> TRUE, isBuffering |-> state.isBuffering]
                  /\ IF dashboard.isDwightAwake
                       THEN startBufferingCall(state)
                       ELSE UNCHANGED <<pending, calls>>
             ELSE UNCHANGED <<soundDetection, loops, speech, effectClosure, pending, calls>>
        /\ UNCHANGED <<now, bufferSizeArg, bufferRef, blobs, expected, soundDetectionFrameRef,
                       firings, lastEval, keywordFirings, dashboard>>

\* the timeout set when a startBuffering promise has resolved:
\* initializeSpeechRecognition() and startSpeechRecognition(), taken from the
\* last render (initializeSoundDetection only awaits getUserMedia here)
startTriggers ==
    LET created == [speech EXCEPT !.onresult = TRUE,
                                  !.isBuffering = rendered.isBuffering,
                                  !.isDwightAwake = renderedDashboard.isDwightAwake,
                                  !.listening = FALSE, !.heard = TRUE]
    IN  /\ effectClosure.ran
        /\ calls > Len(pending)
        /\ speech' = IF ~created.active
                       THEN [created EXCEPT !.listening = TRUE, !.active = TRUE, !.heard = FALSE]
                       ELSE created
        /\ UNCHANGED <<hookVars, dashVars, soundDetection, renderedDetection, loops,
                       soundDetectionFrameRef, firings, lastEval, keywordFirings>>

----------------------------------------------------------------------------
(* The capture session's life cycle, as seen by a caller of the hook *)
Lifecycle ==
    \/ startBuffering
    \/ startBufferingSettled
    \/ Tick
    \/ FinalData
    \/ Advance
    \/ stopBuffering
    \/ Commit

(* The ring buffer and its window: the caller extracts and resizes, and    *)
(* never starts a remembering session.                                     *)
NextWindow ==
    \/ Lifecycle
    \/ triggerRecording
    \/ updateBufferSize

SpecWindow == Init /\ [][NextWindow]_vars

(* The remembering recorder, with the window left alone.                   *)
NextRemember ==
    \/ Lifecycle
    \/ startRemembering
    \/ stopRemembering

SpecRemember == Init /\ [][NextRemember]_vars

(* The configuration surface: every way of setting state.bufferSize.       *)
NextConfig ==
    \/ bufferSizeEffect
    \/ updateBufferSize
    \/ Commit
    \/ Advance

SpecConfig == InitAny /\ [][NextConfig]_vars

(* Demo-mode fallback: every acquisition fails; the caller extracts and    *)
(* resizes, and never stops.                                               *)
NextFallback ==
    \/ startBuffering
    \/ startBufferingFails
    \/ Tick
    \/ Advance
    \/ Commit
    \/ triggerRecording
    \/ updateBufferSize

SpecFallback == Init /\ [][NextFallback]_vars

(* Scenario A: a 30 s window fed by one demo timer at one chunk per        *)
(* second.  The timer is one that runs on: the interval of the first of    *)
(* two startBuffering calls that both completed before the next render,    *)
(* which intervalRef no longer holds.                                      *)
InitA ==
    /\ now = Epoch
    /\ bufferSizeArg = DashboardArg
    /\ state = InitialState(bufferSizeArg)
    /\ rendered = state
    /\ bufferRef = <<>>
    /\ sessions = [i \in Slots |->
                     IF i = 1 THEN NewSession("demo", [bufferSize |-> DashboardArg,
                                                        isRemembering |-> FALSE])
                     ELSE Spent]
    /\ pending = <<>>
    /\ intervalRef = 0
    /\ mediaRecorderRef = 0
    /\ streamRef = 0
    /\ blobs = 0
    /\ calls = MaxStarts
    /\ expected = <<>>
    /\ DashboardMounted

TickA ==
    \E i \in Slots :
        /\ blobs < ScenarioTicks
        /\ intervalCallback(i, 1)

SecondA ==
    /\ \A i \in ActiveTimers : sessions[i].ticked
    /\ blobs < ScenarioTicks
    /\ AdvanceTime(1000)

NextA == TickA \/ SecondA

SpecA == InitA /\ [][NextA]_vars

\* The hook with a caller that starts and extracts but never calls
\* stopBuffering.
NextStay ==
    \/ startBuffering
    \/ startBufferingSettled
    \/ Tick
    \/ FinalData
    \/ Advance
    \/ Commit
    \/ triggerRecording

SpecStay == Init /\ [][NextStay]_vars

(* The dashboard's buttons over the hook.                                  *)
NextDash ==
    \/ mountEffect
    \/ onClickSleep
    \/ onClickWake
    \/ onClickRemember
    \/ CommitDashboard
    \/ startBufferingSettled
    \/ Tick
    \/ FinalData
    \/ Advance

SpecDash == Init /\ [][NextDash]_vars

(* The dashboard's keyword trigger over the hook and the wake/sleep button. *)
NextAwake ==
    \/ mountEffect
    \/ onClickSleep
    \/ onClickWake
    \/ CommitDashboard
    \/ startBufferingSettled
    \/ FinalData
    \/ startTriggers
    \/ Result

SpecAwake == Init /\ [][NextAwake]_vars

(* The sound trigger of the dashboard.                                     *)
NextTrig ==
    \/ initializeSoundDetection
    \/ Frame
    \/ stopSoundDetection
    \/ RenderDashboard
    \/ NextFrame

SpecTrig == Init /\ [][NextTrig]_vars

(* The keyword trigger of the dashboard.                                   *)
NextSpeech ==
    \/ initializeSpeechRecognition
    \/ startSpeechRecognition
    \/ stopSpeechRecognition
    \/ Result
    \/ NextFrame

SpecSpeech == Init /\ [][NextSpeech]_vars

----------------------------------------------------------------------------
(* Properties *)

\* the window in ms
WindowMs(bufferSize) == bufferSize * 1000

\* C1: immediately after each ingestion, every chunk left in bufferRef is no
\* older than the window configured at that moment (state.bufferSize).
C1_WindowAfterIngestion ==
    [][blobs' = blobs + 1 =>
         \A i \in 1..Len(bufferRef') :
             now' - bufferRef'[i].timestamp <= WindowMs(state'.bufferSize)]_vars

\* C2: while a remembering session is open, the chunks stopRemembering would
\* concatenate are the snapshot taken by startRemembering followed by every
\* chunk ingested since, in ingestion order.
C2_RememberingAccumulates ==
    (Settled /\ state.isRemembering) => finalBlob = expected

C5_ExtractionSelectsRange ==
    LET to == now
        from == to - WindowMs(rendered.bufferSize)
        clip == audioBlob
    IN  /\ \A i, j \in 1..Len(clip) :
               i < j => /\ clip[i].timestamp <= clip[j].timestamp
                        /\ clip[i].blob # clip[j].blob
        /\ {clip[i] : i \in 1..Len(clip)} =
               {bufferRef[k] : k \in {n \in 1..Len(bufferRef) :
                    from <= bufferRef[n].timestamp /\ bufferRef[n].timestamp <= to}}

\* an extraction that selects some of the buffered chunks and leaves out others
C5_Witness ==
    /\ Settled
    /\ Len(audioBlob) >= 1
    /\ Len(audioBlob) < Len(bufferRef)

\* C6: Scenario A, count: after the 45th ingestion at one chunk per second
\* with a 30 s window, exactly 30 chunks remain: the 16th to the 45th.
C6_ScenarioACount ==
    blobs = 45 =>
        /\ Len(bufferRef) = 30
        /\ Blobs(bufferRef) = [i \in 1..30 |-> i + 15]

C6_Witness ==
    /\ blobs = 45
    /\ now = Epoch + 45000
    /\ Len(bufferRef) = 30

Full(chunks, bufferSize) == FillNum(chunks, bufferSize) = 100 * FillDen(bufferSize)

\* getBufferFill of chunks2 under bufferSize2 is at most that of chunks1 under
\* bufferSize1 (below 100 the fills compare as duration / bufferSize)
FillLeq(chunks2, bufferSize2, chunks1, bufferSize1) ==
    IF Full(chunks1, bufferSize1) THEN TRUE
    ELSE IF Full(chunks2, bufferSize2) THEN FALSE
    ELSE getBufferDuration(chunks2) * bufferSize1 <= getBufferDuration(chunks1) * bufferSize2

\* a step of updateBufferSize that shrinks the window
Shrinks ==
    /\ bufferSizeArg' = bufferSizeArg
    /\ state'.bufferSize < state.bufferSize

\* C8 as stated: shrinking the window with updateBufferSize never increases
\* getBufferFill.
C8_ShrinkNeverIncreasesFill ==
    [][Shrinks =>
         FillLeq(bufferRef', state'.bufferSize, bufferRef, state.bufferSize)]_vars

\* C8: shrinking the window with updateBufferSize never increases the
\* buffered duration, and leaves a duration below the new window.
C8_ShrinkNeverIncreasesDuration ==
    [][Shrinks =>
         /\ getBufferDuration(bufferRef') <= getBufferDuration(bufferRef)
         /\ getBufferDuration(bufferRef') < WindowMs(state'.bufferSize)]_vars

\* the window has just been shrunk over a buffer that holds chunks
C8_Witness ==
    /\ state.bufferSize < rendered.bufferSize
    /\ Len(bufferRef) >= 2
    /\ getBufferDuration(bufferRef) > 0

\* C9: state.bufferSize is an integer in [30, 3000] in every reachable state.
C9_BufferSizeInRange ==
    state.bufferSize \in 30..3000

\* C10: once every startBuffering call has ended in a failed acquisition and
\* React has rendered, the hook is buffering on the demo timer.
C10_FallbackEndsBuffering ==
    (calls > 0 /\ pending = <<>> /\ Settled) =>
        /\ state.isBuffering
        /\ intervalRef # 0
        /\ sessions[intervalRef].kind = "demo"
        /\ sessions[intervalRef].interval

\* the acquisition failures the caller is to tell apart, and the outcome each
\* is to give
AcquisitionFailures == {"denied", "NotAllowedError", "NotFoundError", "NotReadableError"}

Rejection(outcome) ==
    CASE outcome \in {"denied", "NotAllowedError"} -> "PermissionDenied"
      [] outcome = "NotFoundError" -> "DeviceNotFound"
      [] outcome = "NotReadableError" -> "DeviceBusy"

\* C11: when acquisition fails with permission denied, no device or device
\* busy, the caller of startBuffering observes the corresponding failure, and
\* the three failures are pairwise different.
C11_FailuresDistinguished ==
    [][\A i \in 1..Len(pending), outcome \in AcquisitionFailures :
           startBufferingContinues(i, outcome) =>
               startBufferingResult(outcome) = Rejection(outcome)]_vars

\* the stopped state: not buffering, no ingestion timer, no recorder
\* recording, every track of every stream ended
Stopped ==
    /\ ~state.isBuffering
    /\ ActiveTimers = {}
    /\ \A i \in Slots : ~sessions[i].tracks /\ sessions[i].recorder # "recording"

\* C12: whenever stopBuffering has run since the last start completed
\* (state.isBuffering is false), however often, the session is stopped.
C12_StopLeavesStopped ==
    ~state.isBuffering => Stopped

\* C13: once stopBuffering has returned and no start is under way, a timer
\* tick or recorder event that delivers a chunk leaves bufferRef and
\* recordedChunks as they were.
C13_NoIngestionAfterStop ==
    [][(~state.isBuffering /\ pending = <<>> /\ blobs' # blobs) =>
           /\ bufferRef' = bufferRef
           /\ state'.recordedChunks = state.recordedChunks]_vars

\* the sources that deliver chunks: a timer that fires or a recorder recording
ChunkSources == {i \in Slots : sessions[i].interval \/ sessions[i].recorder = "recording"}

\* C14: at most one ingestion timer and one chunk source is active.
C14_SingleTimer ==
    /\ Cardinality(ActiveTimers) <= 1
    /\ Cardinality(ChunkSources) <= 1

C16_StartWhileRemembering ==
    [][(state.isRemembering /\ startRemembering) =>
           /\ state'.recordedChunks = state.recordedChunks
           /\ expected' = expected]_vars

\* C17: stopRemembering called while no remembering session is active fails
\* with NotActive and returns no artifact.
C17_StopWhileIdle ==
    (Settled /\ ~state.isRemembering) => stopRememberingResult.outcome = "NotActive"

\* C18: triggerRecording fails with EmptyBuffer when buffering was never
\* started or bufferRef holds no chunk, and an artifact it returns is never
\* empty.
C18_EmptyBuffer ==
    Settled =>
        /\ (calls = 0 \/ bufferRef = <<>>) => triggerRecordingResult.outcome = "EmptyBuffer"
        /\ triggerRecordingResult.outcome = "resolved" => triggerRecordingResult.parts # <<>>

\* C19: the chunks of bufferRef are strictly ordered by timestamp.
C19_StrictlyOrdered ==
    \A i, j \in 1..Len(bufferRef) :
        i < j => bufferRef[i].timestamp < bufferRef[j].timestamp

C21_FillRatio ==
    LET num == FillNum(bufferRef, state.bufferSize)
        den == FillDen(state.bufferSize)
    IN  /\ 0 <= num
        /\ num <= 100 * den
        /\ num = 100 * getBufferDuration(bufferRef)
        /\ bufferRef = <<>> => num = 0

\* C22: once startBuffering has succeeded and the caller does not call
\* stopBuffering, isBuffering stays true and the session's timer stays
\* active, also across re-renders and effect cleanups.
C22_StaysBuffering ==
    [][state.isBuffering
         => /\ state'.isBuffering
            /\ \A i \in ActiveTimers : i \in ActiveTimers']_vars

\* C23: ingestion while Idle leaves recordedChunks unchanged, whatever the
\* order of startBuffering and startRemembering: recordedChunks is empty
\* whenever isRemembering is false.
C23_IdleKeepsNothing == ~state.isRemembering => state.recordedChunks = <<>>

\* C24: stopRemembering returns the accumulated chunks in order and leaves
\* the hook Idle with an empty accumulated sequence; when nothing was
\* accumulated it returns an empty artifact, not an error.
C24_StopReturnsAccumulated ==
    [][stopRemembering
         => /\ stopRememberingResult.outcome = "returned"
            /\ stopRememberingResult.parts = state.recordedChunks
            /\ ~state'.isRemembering
            /\ state'.recordedChunks = <<>>]_vars

\* stopRemembering has just returned two accumulated chunks
C24_Witness ==
    /\ rendered.isRemembering
    /\ Len(rendered.recordedChunks) = 2
    /\ ~state.isRemembering
    /\ state.recordedChunks = <<>>

\* C25: shrinking the window with updateBufferSize evicts at once: right
\* after the call no chunk of bufferRef is older than the new, clamped window.
C25_ShrinkEvictsAtOnce ==
    [][Shrinks =>
         \A i \in DOMAIN bufferRef' :
             now' - bufferRef'[i].timestamp <= WindowMs(state'.bufferSize)]_vars

\* the window has just been shrunk from 3000 s to 30 s, 45 s after the first
\* chunk: only the chunk stamped within the last 30 s is left
C25_Witness ==
    /\ rendered.bufferSize = 3000
    /\ state.bufferSize = 30
    /\ blobs = 2
    /\ Len(bufferRef) = 1
    /\ now - bufferRef[1].timestamp <= WindowMs(30)

\* a step of updateBufferSize that grows the window
Grows ==
    /\ bufferSizeArg' = bufferSizeArg
    /\ state'.bufferSize > state.bufferSize

\* C26: growing the window with updateBufferSize removes and restores no
\* chunk, and every later ingestion of the running session evicts only
\* chunks older than the window configured at that time.
C26_GrowthTakesEffect ==
    [][/\ Grows => bufferRef' = bufferRef
       /\ blobs' # blobs =>
            \A i \in DOMAIN bufferRef :
                now - bufferRef[i].timestamp < WindowMs(state.bufferSize)
                    => \E j \in DOMAIN bufferRef' : bufferRef'[j] = bufferRef[i]]_vars

\* C27: triggerRecording leaves the chunk sequence, the configured window
\* and the remembering session unchanged, and resolves with an empty result,
\* not an error, when no chunk is in range.
C27_ExtractionIsPureRead ==
    [][triggerRecording
         => /\ bufferRef' = bufferRef
            /\ state'.bufferSize = state.bufferSize
            /\ state'.isRemembering = state.isRemembering
            /\ state'.recordedChunks = state.recordedChunks
            /\ triggerRecordingResult.outcome = "resolved"
            /\ audioBlob = <<>> => triggerRecordingResult.parts = <<>>]_vars

\* triggerRecording has just been called on a buffer that holds a chunk,
\* none in range
C27_Witness ==
    /\ state.isTriggered
    /\ ~rendered.isTriggered
    /\ bufferRef # <<>>
    /\ audioBlob = <<>>

\* C28: the dashboard's isRemembering flag equals the hook's isRemembering
\* in every reachable state, and while Dwight sleeps the hook holds no
\* remembering session and no accumulated chunks.
C28_FlagsAgree ==
    /\ dashboard.isRemembering = state.isRemembering
    /\ ~dashboard.isDwightAwake => ~state.isRemembering /\ state.recordedChunks = <<>>

\* C29: when stopBuffering is called (by the sleep click) while a
\* startBuffering is still awaiting the permission or the device, then once
\* both calls have completed the session is stopped: isBuffering is false,
\* no timer is active and the stream is released.
C29_StopWinsOverPendingStart ==
    [][(~dashboard.isDwightAwake /\ pending # <<>> /\ pending' = <<>>)
          => Stopped']_vars

====
